---- MODULE Spec2Model ----
(***************************************************************************)
(* Model of the Bright Data Unlocker test server (src/server.js): the      *)
(* /fetch and /test handlers, the shared fetchContent helper, and the      *)
(* process-wide NODE_TLS_REJECT_UNAUTHORIZED flag it toggles.              *)
(*                                                                         *)
(* A JavaScript string is a sequence of one-character strings.  A value    *)
(* that may be undefined/null is a sequence of length 0 (absent) or 1.     *)
(* A handler runs without interruption from one await to the next, so each *)
(* handler is two steps: the part up to `await fetchContent(...)`, which   *)
(* includes fetchContent up to its own await, and the continuation that    *)
(* runs when the outbound call settles (returns or throws).                *)
(***************************************************************************)
EXTENDS Integers, Sequences, FiniteSets, TLC

\* ------------------------------------------------------------------ bounds

\* Requests the concurrent specification lets be in flight together.
MaxReq == 2
\* Leading/trailing whitespace characters put around a body stem.
MaxPad == 1

\* ------------------------------------------------------- optional values

None == <<>>
Some(x) == <<x>>
IsSome(o) == Len(o) = 1
Get(o) == o[1]

\* ----------------------------------------------------------- JS strings

UpperAlpha ==
  <<"A","B","C","D","E","F","G","H","I","J","K","L","M",
    "N","O","P","Q","R","S","T","U","V","W","X","Y","Z">>
LowerAlpha ==
  <<"a","b","c","d","e","f","g","h","i","j","k","l","m",
    "n","o","p","q","r","s","t","u","v","w","x","y","z">>

\* String.prototype.toLowerCase, one character.
toLowerCaseChar(c) ==
  IF \E i \in 1..26 : UpperAlpha[i] = c
    THEN LowerAlpha[CHOOSE i \in 1..26 : UpperAlpha[i] = c]
    ELSE c

\* String.prototype.toLowerCase
toLowerCase(s) == [i \in 1..Len(s) |-> toLowerCaseChar(s[i])]

WhiteSpace == {" ", "\t", "\n"}

\* String.prototype.trim: white space removed at both ends.
trim(s) ==
  LET ink == {i \in 1..Len(s) : s[i] \notin WhiteSpace}
  IN  IF ink = {} THEN <<>>
      ELSE LET lo == CHOOSE i \in ink : \A j \in ink : i <= j
               hi == CHOOSE i \in ink : \A j \in ink : j <= i
           IN  SubSeq(s, lo, hi)

\* String.prototype.startsWith
startsWith(s, p) == Len(p) <= Len(s) /\ SubSeq(s, 1, Len(p)) = p

\* String.prototype.includes
includes(s, p) ==
  \E i \in 0..(Len(s) - Len(p)) : SubSeq(s, i + 1, i + Len(p)) = p

\* A JS number that may be NaN (parseInt of a non-numeric string).
NaN == [nan |-> TRUE, val |-> 0]
Num(n) == [nan |-> FALSE, val |-> n]

\* a > b and a <= b for an integer a and a number b: both false on NaN.
NumGt(a, b) == ~b.nan /\ a > b.val
NumLe(a, b) == ~b.nan /\ a <= b.val

\* String.prototype.substring(0, end): end NaN or negative is 0, end beyond
\* the length is the length.
substring0(s, end) ==
  LET e == IF end.nan \/ end.val < 0 THEN 0
           ELSE IF end.val > Len(s) THEN Len(s) ELSE end.val
  IN  SubSeq(s, 1, e)

Digits == <<"0","1","2","3","4","5","6","7","8","9">>
IsDigit(c) == \E i \in 1..10 : Digits[i] = c
DigitVal(c) == (CHOOSE i \in 1..10 : Digits[i] = c) - 1

RECURSIVE DigitsValue(_)
DigitsValue(ds) ==
  IF ds = <<>> THEN 0
  ELSE 10 * DigitsValue(SubSeq(ds, 1, Len(ds) - 1)) + DigitVal(ds[Len(ds)])

\* parseInt(s, 10): optional sign, then the longest run of digits; NaN when
\* there is none.
parseInt(s) ==
  LET t    == trim(s)
      neg  == t # <<>> /\ t[1] = "-"
      body == IF t # <<>> /\ t[1] \in {"-", "+"} THEN Tail(t) ELSE t
      stop == {i \in 1..Len(body) : ~IsDigit(body[i])}
      n    == IF stop = {} THEN Len(body)
              ELSE (CHOOSE i \in stop : \A j \in stop : i <= j) - 1
      v    == DigitsValue(SubSeq(body, 1, n))
  IN  IF n = 0 THEN NaN ELSE Num(IF neg THEN 0 - v ELSE v)

\* ------------------------------------------------------- configuration

VARIABLES
  envApiKey,      \* process.env.BRIGHT_DATA_API_KEY at start
  envMaxContent,  \* process.env.MAX_CONTENT_SIZE at start
  bootReject,     \* process.env.NODE_TLS_REJECT_UNAUTHORIZED at start
  tlsReject,      \* process.env.NODE_TLS_REJECT_UNAUTHORIZED now
  console,        \* the functions console.log and console.error are now
  req             \* per connection: the handler's locals at its await, then
                  \* the response it wrote, until the connection closes

vars == <<envApiKey, envMaxContent, bootReject, tlsReject, console, req>>

\* JS truthiness of an optional string: undefined and '' are falsy.
Truthy(o) == IsSome(o) /\ Get(o) # <<>>

\* a || b for optional strings and a default that is a string.
OrElse(o, d) == IF Truthy(o) THEN Get(o) ELSE d

\* The built-in key, abbreviated to its first characters.
DefaultApiKey == <<"7","8","1","e">>

\* UNLOCKER_CONFIG.apiKey
apiKey == OrElse(envApiKey, DefaultApiKey)

DefaultMaxContent == <<"5","2","4","2","8","8","0">>

\* MAX_FULL_CONTENT_SIZE, a JS number
MAX_FULL_CONTENT_SIZE == parseInt(OrElse(envMaxContent, DefaultMaxContent))

\* The URL /test fetches when none is given.
DefaultUrl == "https://forum.opencart.com/feed/forum/2"

\* new URL(url) succeeds: decided for the URLs the requests carry.
GoodUrl == "https://example.com/feed"
BadUrl == "not a url"
UrlParses(u) == u \in {GoodUrl, DefaultUrl}

\* ------------------------------------------------------- upstream data

\* response.data of the outbound call: a string, a parsed JSON object with
\* optional string fields body, data, content (in that key order), or null.
StringData(s) ==
  [kind |-> "string", text |-> s, body |-> None, data |-> None, content |-> None]
ObjectData(b, d, c) ==
  [kind |-> "object", text |-> <<>>, body |-> b, data |-> d, content |-> c]
NullData ==
  [kind |-> "null", text |-> <<>>, body |-> None, data |-> None, content |-> None]

Quoted(s) == <<"\"">> \o s \o <<"\"">>

\* "key":"value" for a present field, with a leading comma after the first.
Member(key, o, first) ==
  IF IsSome(o)
    THEN (IF first THEN <<>> ELSE <<",">>) \o Quoted(key) \o <<":">> \o Quoted(Get(o))
    ELSE <<>>

\* JSON.stringify of response.data that is not a string.
JSONstringify(d) ==
  IF d.kind = "null" THEN <<"n","u","l","l">>
  ELSE <<"{">>
       \o Member(<<"b","o","d","y">>, d.body, TRUE)
       \o Member(<<"d","a","t","a">>, d.data, ~IsSome(d.body))
       \o Member(<<"c","o","n","t","e","n","t">>, d.content,
                 ~IsSome(d.body) /\ ~IsSome(d.data))
       \o <<"}">>

\* ------------------------------------------------------------ requests

\* A request parameter (url, mode, full) is an optional atom; "" is the
\* empty string, which is falsy like an absent parameter.
ParamTruthy(p) == IsSome(p) /\ Get(p) # ""
ParamOr(p, d) == IF ParamTruthy(p) THEN Get(p) ELSE d

\* const fullContent = req.query.full === 'true' || req.query.full === '1' ...
fullContentOf(full) == full \in {Some("true"), Some("1")}

\* Every field a response may carry; an absent field is None.
NoResponse ==
  [route |-> "", url |-> "", mode |-> "", fullContent |-> FALSE, calls |-> 0,
   reached |-> FALSE,
   upstream |-> None,      \* response.data and status the outbound call returned
   fetched |-> None,       \* what fetchContent returned: {content, status}
   thrown |-> None,        \* the error fetchContent rejected with
   httpStatus |-> 0,
   sent |-> None,          \* res.send(content)
   contentType |-> None,
   isJson |-> FALSE,       \* res.json(...)
   error |-> None, allowed |-> None, provided |-> None, message |-> None,
   contentLength |-> None, maxAllowed |-> None,
   success |-> None, status |-> None, contentPreview |-> None,
   content |-> None, isXml |-> None, hasCloudflareChallenge |-> None,
   contentTruncated |-> None, maxContentSize |-> None,
   errorResponse |-> None,
   logs |-> None]

\* A value of console.log or console.error: the function in place when the
\* server started, or the capturing closure made by the /test request of
\* connection r, written r.
Builtin == 0

\* console.log = (...args) => {logs.push(...)}; console.error likewise.
Capturing(r) == [log |-> r, error |-> r]

IdleReq ==
  [pc |-> "idle", route |-> "", url |-> "", mode |-> "", fullContent |-> FALSE,
   originalReject |-> None, originalLog |-> Builtin, originalError |-> Builtin,
   calls |-> 0, res |-> None]

\* A connection whose handler has written its response.
Responded(response) ==
  [IdleReq EXCEPT !.pc = "responded", !.res = Some(response)]

\* The response a connection holds.
Response(r) == Get(req[r].res)

\* The part of a response that names its request.
ResponseOf(route, url, mode, fullContent) ==
  [NoResponse EXCEPT !.route = route, !.url = url, !.mode = mode,
                     !.fullContent = fullContent]

\* -------------------------------------------------------- fetchContent

\* The literals the bodies are tested against.
XmlDecl == <<"<","?","x","m","l">>
FeedTag == <<"<","f","e","e","d">>
RssTag == <<"<","r","s","s">>
Doctype == <<"<","!","d","o","c","t","y","p","e">>
HtmlTag == <<"<","h","t","m","l">>
Cloudflare == <<"c","l","o","u","d","f","l","a","r","e">>
JustAMoment == <<"j","u","s","t"," ","a"," ","m","o","m","e","n","t">>
CfVerification ==
  <<"c","f","-","b","r","o","w","s","e","r","-",
    "v","e","r","i","f","i","c","a","t","i","o","n">>

\* fetchContent, api mode, after the POST returned: unwrap a JSON envelope.
apiBody(d) ==
  IF d.kind = "string" THEN d.text
  ELSE IF d.kind = "object"
    THEN IF Truthy(d.body) THEN Get(d.body)
         ELSE IF Truthy(d.data) THEN Get(d.data)
         ELSE IF Truthy(d.content) THEN Get(d.content)
         ELSE JSONstringify(d)
  ELSE <<>>

\* fetchContent, native mode, after the GET returned.
nativeBody(d) == IF d.kind = "string" THEN d.text ELSE JSONstringify(d)

\* What fetchContent resolves to for the outbound call's data and status.
fetchContent(mode, d, status) ==
  [content |-> IF mode = "api" THEN apiBody(d) ELSE nativeBody(d),
   status |-> status]

\* NODE_TLS_REJECT_UNAUTHORIZED after fetchContent returned: native mode
\* puts back the value it saved (deleting the variable when it was unset).
RejectAfterReturn(r) ==
  IF req[r].mode = "native" THEN req[r].originalReject ELSE tlsReject

\* NODE_TLS_REJECT_UNAUTHORIZED after the outbound call threw: the restore
\* follows the await with no try/finally, so it is skipped.
RejectAfterThrow(r) == tlsReject

\* ------------------------------------------------------------- /fetch

PreviewLength == 500

\* Content-Type chosen for a served body.
contentTypeOf(content) ==
  LET lower == trim(toLowerCase(content))
  IN  IF startsWith(lower, XmlDecl) \/ startsWith(lower, FeedTag)
         \/ startsWith(lower, RssTag)
        THEN "application/xml; charset=utf-8"
      ELSE IF startsWith(lower, Doctype) \/ startsWith(lower, HtmlTag)
        THEN "text/html; charset=utf-8"
      ELSE IF startsWith(lower, <<"{">>) \/ startsWith(lower, <<"[">>)
        THEN "application/json; charset=utf-8"
      ELSE "text/plain; charset=utf-8"

\* /fetch sending the trimmed body it sniffed instead of the body.
FetchRespondTrimmed(base, fr) ==
  IF fr.status >= 400
    THEN [base EXCEPT !.httpStatus = fr.status, !.sent = Some(fr.content)]
  ELSE IF NumGt(Len(fr.content), MAX_FULL_CONTENT_SIZE)
    THEN [base EXCEPT !.httpStatus = 413, !.isJson = TRUE,
                      !.error = Some("Content too large"),
                      !.contentLength = Some(Len(fr.content)),
                      !.maxAllowed = Some(MAX_FULL_CONTENT_SIZE),
                      !.message = Some("Content exceeds")]
  ELSE [base EXCEPT !.httpStatus = 200, !.sent = Some(trim(fr.content)),
                    !.contentType = Some("text/plain; charset=utf-8")]

\* /fetch after fetchContent returned fr.
FetchRespond(base, fr) ==
  IF fr.status >= 400
    THEN [base EXCEPT !.httpStatus = fr.status, !.sent = Some(fr.content)]
  ELSE IF NumGt(Len(fr.content), MAX_FULL_CONTENT_SIZE)
    THEN [base EXCEPT !.httpStatus = 413, !.isJson = TRUE,
                      !.error = Some("Content too large"),
                      !.contentLength = Some(Len(fr.content)),
                      !.maxAllowed = Some(MAX_FULL_CONTENT_SIZE),
                      !.message = Some("Content exceeds")]
  ELSE [base EXCEPT !.httpStatus = 200, !.sent = Some(fr.content),
                    !.contentType = Some(contentTypeOf(fr.content))]

\* /fetch when fetchContent threw.
FetchCatch(base, err) ==
  [base EXCEPT !.httpStatus = 500, !.isJson = TRUE,
               !.error = Some("Fetch failed"), !.message = Some(err.message)]

\* -------------------------------------------------------------- /test

\* let result = {...}: the fields before the fetch.
TestResult(base) ==
  [base EXCEPT !.isJson = TRUE, !.success = Some(FALSE), !.status = None,
               !.contentLength = Some(0), !.contentPreview = Some(<<>>),
               !.content = None, !.isXml = Some(FALSE),
               !.hasCloudflareChallenge = Some(FALSE),
               !.logs = Some(<<>>)]

\* The feed test without the XML declaration.
isXmlOfTagsOnly(body) ==
  LET lower == toLowerCase(body)
  IN  startsWith(lower, FeedTag) \/ startsWith(lower, RssTag)

isXmlOf(body) ==
  LET lower == toLowerCase(body)
  IN  startsWith(lower, XmlDecl) \/ startsWith(lower, FeedTag)
      \/ startsWith(lower, RssTag)

\* The challenge test made only when the body is no feed, as an else-if.
hasCloudflareChallengeElseIf(body) ==
  LET lower == toLowerCase(body)
  IN  /\ ~isXmlOf(body)
      /\ \/ includes(lower, Cloudflare) \/ includes(lower, JustAMoment)
         \/ includes(lower, CfVerification)

hasCloudflareChallengeOf(body) ==
  LET lower == toLowerCase(body)
  IN  includes(lower, Cloudflare) \/ includes(lower, JustAMoment)
      \/ includes(lower, CfVerification)

\* The upper end of the success range included.
successOfInclusive(status) == status >= 200 /\ status <= 300

\* result.success = status >= 200 && status < 300
successOf(status) == status >= 200 /\ status < 300

\* The preview taken without a limit.
contentPreviewWhole(body) == body

\* result.contentPreview = body.substring(0, 500)
contentPreviewOf(body) == substring0(body, Num(PreviewLength))

\* The size limit compared with < instead of <=.
WithFullContentStrict(result, body) ==
  IF NumGt(MAX_FULL_CONTENT_SIZE.val, Num(Len(body)))
       /\ ~MAX_FULL_CONTENT_SIZE.nan
    THEN [result EXCEPT !.content = Some(body)]
    ELSE [result EXCEPT !.contentTruncated = Some(TRUE),
                        !.content = Some(substring0(body, MAX_FULL_CONTENT_SIZE)),
                        !.maxContentSize = Some(MAX_FULL_CONTENT_SIZE),
                        !.message = Some("Content truncated")]

\* result.content and the fields that go with it, full=true.
WithFullContent(result, body) ==
  IF NumLe(Len(body), MAX_FULL_CONTENT_SIZE)
    THEN [result EXCEPT !.content = Some(body)]
    ELSE [result EXCEPT !.contentTruncated = Some(TRUE),
                        !.content = Some(substring0(body, MAX_FULL_CONTENT_SIZE)),
                        !.maxContentSize = Some(MAX_FULL_CONTENT_SIZE),
                        !.message = Some("Content truncated")]

\* The upstream status passed on whenever there is one.
statusCodeOfUpstream(result) ==
  IF IsSome(result.status) /\ Get(result.status) # 0
    THEN Get(result.status) ELSE 500

\* const statusCode = result.success ? 200 : (result.status || 500)
statusCodeOf(result) ==
  IF Get(result.success) THEN 200
  ELSE IF IsSome(result.status) /\ Get(result.status) # 0
    THEN Get(result.status) ELSE 500

\* /test after fetchContent returned fr.
TestRespond(base, fr) ==
  LET body == fr.content
      r1 == [TestResult(base) EXCEPT
               !.status = Some(fr.status),
               !.contentLength = Some(Len(body)),
               !.contentPreview = Some(contentPreviewOf(body)),
               !.success = Some(successOf(fr.status)),
               !.isXml = Some(isXmlOf(body)),
               !.hasCloudflareChallenge = Some(hasCloudflareChallengeOf(body))]
      r2 == IF base.fullContent THEN WithFullContent(r1, body) ELSE r1
  IN  [r2 EXCEPT !.httpStatus = statusCodeOf(r2)]

\* The body attached to an error, returned whole.
errorResponseWhole(data) == nativeBody(data)

\* if (typeof data !== 'string') data = JSON.stringify(data);
\* result.errorResponse = data.substring(0, 500)
errorResponseOf(data) == substring0(nativeBody(data), Num(PreviewLength))

\* /test when fetchContent threw.
TestCatch(base, err) ==
  LET r0 == [TestResult(base) EXCEPT !.error = Some(err.message)]
      r1 == IF IsSome(err.response)
              THEN [r0 EXCEPT
                      !.status = Some(Get(err.response).status),
                      !.errorResponse =
                        Some(errorResponseOf(Get(err.response).data))]
              ELSE r0
  IN  [r1 EXCEPT !.httpStatus = statusCodeOf(r1)]

\* ------------------------------------------------------------ handlers

\* The mode compared without regard to case.
ValidModeAnyCase(mode) == mode \in {"api", "native", "API", "NATIVE"}

\* mode !== 'api' && mode !== 'native' is the rejection.
ValidMode(mode) == mode \in {"api", "native"}

\* A handler's early return: res.status(400).json({error, ...}).
Reject(r, base, error, provided, allowed) ==
  /\ req' = [req EXCEPT ![r] =
               Responded([base EXCEPT !.httpStatus = 400, !.isJson = TRUE,
                                      !.error = Some(error),
                                      !.provided = provided,
                                      !.allowed = allowed])]
  /\ UNCHANGED <<tlsReject, console>>

\* The handler's catch block for its route.
Catch(base, err) ==
  LET b == [base EXCEPT !.reached = TRUE, !.thrown = Some(err)]
  IN  IF base.route = "/fetch" THEN FetchCatch(b, err) ELSE TestCatch(b, err)

ConfigError ==
  [message |-> "BRIGHT_DATA_API_KEY not configured", response |-> None]

\* The handler's locals while its outbound call is pending.
Awaiting(base, originalReject) ==
  [pc |-> "await", route |-> base.route, url |-> base.url, mode |-> base.mode,
   fullContent |-> base.fullContent, originalReject |-> originalReject,
   originalLog |-> IF base.route = "/test" THEN console.log ELSE Builtin,
   originalError |-> IF base.route = "/test" THEN console.error ELSE Builtin,
   calls |-> 1, res |-> None]

\* The console while the handler of r waits for its fetch: /test has saved
\* console.log and console.error and put its capturing closures in their
\* place; /fetch leaves the console alone.
ConsoleDuring(r, base) ==
  IF base.route = "/test" THEN Capturing(r) ELSE console

\* finally { console.log = originalLog; console.error = originalError }
ConsoleAfter(r) ==
  IF req[r].route = "/test"
    THEN [log |-> req[r].originalLog, error |-> req[r].originalError]
    ELSE console

\* await fetchContent(url, mode), up to the outbound call: the api branch
\* checks the key and posts; the native branch saves the TLS flag, sets it
\* to '0' and issues the GET.
CallFetchContent(r, base) ==
  IF base.mode = "api"
    THEN IF ~Truthy(Some(apiKey))
           THEN /\ req' = [req EXCEPT ![r] = Responded(Catch(base, ConfigError))]
                /\ UNCHANGED <<tlsReject, console>>
           ELSE /\ req' = [req EXCEPT ![r] = Awaiting(base, None)]
                /\ console' = ConsoleDuring(r, base)
                /\ UNCHANGED tlsReject
    ELSE /\ req' = [req EXCEPT ![r] = Awaiting(base, tlsReject)]
         /\ console' = ConsoleDuring(r, base)
         /\ tlsReject' = Some("0")

\* app.all('/fetch'), from the request to the await.
HandleFetch(r, urlParam, modeParam) ==
  LET url == ParamOr(urlParam, "")
      mode == ParamOr(modeParam, "api")
      base == ResponseOf("/fetch", url, mode, FALSE)
  IN  /\ req[r].pc = "idle"
      /\ IF url = ""
           THEN Reject(r, base, "Missing url parameter", None, None)
         ELSE IF ~UrlParses(url)
           THEN Reject(r, base, "Invalid URL", Some(url), None)
         ELSE IF ~ValidMode(mode)
           THEN Reject(r, base, "Invalid mode", None, Some(<<"api", "native">>))
         ELSE CallFetchContent(r, base)
      /\ UNCHANGED <<envApiKey, envMaxContent, bootReject>>

\* app.all('/test'), from the request to the await.
HandleTest(r, urlParam, modeParam, fullParam) ==
  LET url == ParamOr(urlParam, DefaultUrl)
      mode == ParamOr(modeParam, "api")
      base == ResponseOf("/test", url, mode, fullContentOf(fullParam))
  IN  /\ req[r].pc = "idle"
      /\ IF url = ""
           THEN Reject(r, base, "Missing URL parameter", None, None)
         ELSE IF ~UrlParses(url)
           THEN Reject(r, base, "Invalid URL", Some(url), None)
         ELSE IF ~ValidMode(mode)
           THEN Reject(r, base, "Invalid mode", Some(mode),
                       Some(<<"api", "native">>))
         ELSE CallFetchContent(r, base)
      /\ UNCHANGED <<envApiKey, envMaxContent, bootReject>>

\* The request a pending handler answers.
BaseOf(r) ==
  [ResponseOf(req[r].route, req[r].url, req[r].mode, req[r].fullContent)
     EXCEPT !.reached = TRUE, !.calls = req[r].calls]

\* The outbound call of r returned data d with the given status: the rest of
\* fetchContent, then the rest of the handler.
Returns(r, d, status) ==
  LET fr == fetchContent(req[r].mode, d, status)
      base == [BaseOf(r) EXCEPT !.upstream = Some([data |-> d, status |-> status]),
                                !.fetched = Some(fr)]
  IN  /\ req[r].pc = "await"
      /\ tlsReject' = RejectAfterReturn(r)
      /\ console' = ConsoleAfter(r)
      /\ req' = [req EXCEPT ![r] =
                   Responded(IF req[r].route = "/fetch"
                               THEN FetchRespond(base, fr)
                               ELSE TestRespond(base, fr))]
      /\ UNCHANGED <<envApiKey, envMaxContent, bootReject>>

\* The call made once more after it threw.
ThrowsRetry(r, err) ==
  /\ req[r].pc = "await"
  /\ IF req[r].calls < 2
       THEN /\ req' = [req EXCEPT ![r].calls = @ + 1]
            /\ UNCHANGED <<tlsReject, console>>
       ELSE /\ tlsReject' = tlsReject
            /\ console' = ConsoleAfter(r)
            /\ req' = [req EXCEPT ![r] = Responded(Catch(BaseOf(r), err))]
  /\ UNCHANGED <<envApiKey, envMaxContent, bootReject>>

\* The outbound call of r threw err (timeout, transport failure): the
\* handler's catch block answers.
Throws(r, err) ==
  /\ req[r].pc = "await"
  /\ tlsReject' = RejectAfterThrow(r)
  /\ console' = ConsoleAfter(r)
  /\ req' = [req EXCEPT ![r] = Responded(Catch(BaseOf(r), err))]
  /\ UNCHANGED <<envApiKey, envMaxContent, bootReject>>

\* app.all('/fetch'), from the await on, the outbound call having returned.
FetchReturns(r, d, status) == req[r].route = "/fetch" /\ Returns(r, d, status)

\* app.all('/test'), from the await on, the outbound call having returned.
TestReturns(r, d, status) == req[r].route = "/test" /\ Returns(r, d, status)

\* app.all('/fetch'), the outbound call having thrown.
FetchThrows(r, err) == req[r].route = "/fetch" /\ Throws(r, err)

\* app.all('/test'), the outbound call having thrown.
TestThrows(r, err) == req[r].route = "/test" /\ Throws(r, err)

\* The response of r has gone out and its connection is free again.
Close(r) ==
  /\ req[r].pc = "responded"
  /\ req' = [req EXCEPT ![r] = IdleReq]
  /\ UNCHANGED <<envApiKey, envMaxContent, bootReject, tlsReject, console>>

\* -------------------------------------------------------------- inputs

UrlParams == {None, Some(""), Some(BadUrl), Some(GoodUrl)}
ModeParams == {None, Some("api"), Some("native"), Some("bogus"), Some("API")}
FullParams == {None, Some("true"), Some("1"), Some("false")}

RejectValues == {None, Some("0"), Some("1")}
MaxContentEnvs ==
  {None, Some(<<"4">>), Some(<<"1","2">>), Some(<<"-","1">>), Some(<<"x">>)}

\* White space in front of a body: every run of at most n characters.
RECURSIVE Pads(_)
Pads(n) ==
  IF n = 0 THEN {<<>>}
  ELSE Pads(n - 1)
       \cup {<<c>> \o p : c \in {" ", "\n"},
                          p \in {q \in Pads(n - 1) : Len(q) = n - 1}}

\* <?xml version="1.0"?><rss></rss>
FeedDocument ==
  <<"<","?","x","m","l"," ","v","e","r","s","i","o","n","=","\"","1",".","0",
    "\"","?",">","<","r","s","s",">","<","/","r","s","s",">">>

\* A body one character longer than the preview, its characters alternating.
LongText == [i \in 1..(PreviewLength + 1) |-> IF i % 2 = 1 THEN "a" ELSE "b"]

Stems ==
  { <<>>,
    FeedDocument,
    <<"a","C","F","-","B","r","o","w","s","e","r","-",
      "V","e","r","i","f","i","c","a","t","i","o","n","!">>,
    <<"c","l","o","u","d","f","l","a","r">>,
    <<"<","?","x","m","l",">">>,
    <<"<","?","X","M","L",">">>,
    <<"<","f","e","e","d",">">>,
    <<"<","R","s","s",">">>,
    <<"<","r","s","s">>,
    <<"<","r","s">>,
    <<"x","<","r","s","s">>,
    <<"H","e","l","l","o"," ","w","o","r","l","d">>,
    <<"<","h","t","m","l",">">>,
    <<"<","!","D","O","C","T","Y","P","E",">">>,
    <<"{","}">>,
    <<"[","1","]">>,
    <<"J","u","s","t"," ","a"," ","m","o","m","e","n","t",".",".",".">>,
    <<"<","r","s","s",">","C","l","o","u","d","F","l","a","r","e">> }

Bodies == {p \o s : p \in Pads(MaxPad), s \in Stems}

FieldValues(v) == {None, Some(<<>>), Some(v)}
Envelopes ==
  {ObjectData(b, d, c) : b \in FieldValues(<<"<","r","s","s",">","B">>),
                         d \in FieldValues(<<"D","a","t","a","!">>),
                         c \in FieldValues(<<"C">>)}

AllData ==
  {StringData(s) : s \in Bodies \cup {LongText}} \cup Envelopes \cup {NullData}
AllStatuses == {199, 200, 299, 300, 404}

Timeout == [message |-> "timeout of 120000ms exceeded", response |-> None]
BadGateway ==
  [message |-> "Request failed",
   response |-> Some([status |-> 502, data |-> StringData(<<"B","a","d">>)])]
\* An error whose attached body is longer than the preview.
GatewayPage ==
  [message |-> "socket hang up",
   response |-> Some([status |-> 503, data |-> StringData(LongText)])]
\* An error whose attached body is not a string.
GatewayJson ==
  [message |-> "Request failed",
   response |-> Some([status |-> 504, data |-> NullData])]
Errors == {Timeout, BadGateway, GatewayPage, GatewayJson}

\* The inputs of the concurrent specification: what the handlers do with
\* the flag does not depend on the data.
FewUrls == {None, Some(BadUrl), Some(GoodUrl)}
FewModes == {Some("api"), Some("native"), Some("bogus")}
\* /test replaces a missing url by its default, so one url stands for both.
FewTestUrls == {Some(GoodUrl)}
FewData == {StringData(RssTag)}
FewStatuses == {200}

\* ------------------------------------------------------- specifications

InitWith(keys, maxes, rejects) ==
  /\ envApiKey \in keys
  /\ envMaxContent \in maxes
  /\ bootReject \in rejects
  /\ tlsReject = bootReject
  /\ console = [log |-> Builtin, error |-> Builtin]
  /\ req = [r \in 1..MaxReq |-> IdleReq]

\* The server, with up to MaxReq requests in flight.
Init == InitWith({None}, {None}, RejectValues)

Next ==
  \E r \in 1..MaxReq :
    \/ \E u \in FewUrls, m \in FewModes : HandleFetch(r, u, m)
    \/ \E u \in FewTestUrls, m \in FewModes : HandleTest(r, u, m, None)
    \/ \E d \in FewData, st \in FewStatuses : FetchReturns(r, d, st)
    \/ \E d \in FewData, st \in FewStatuses : TestReturns(r, d, st)
    \/ FetchThrows(r, Timeout)
    \/ TestThrows(r, Timeout)
    \/ Close(r)

Spec == Init /\ [][Next]_vars

\* The server answering one request at a time, over every kind of request,
\* of upstream answer and of setting of the environment.
InitOne == InitWith({None}, MaxContentEnvs, {None})

NextOne ==
  \/ \E u \in UrlParams, m \in ModeParams : HandleFetch(1, u, m)
  \/ \E u \in UrlParams, m \in ModeParams, f \in FullParams : HandleTest(1, u, m, f)
  \/ \E d \in AllData, st \in AllStatuses : FetchReturns(1, d, st)
  \/ \E d \in AllData, st \in AllStatuses : TestReturns(1, d, st)
  \/ \E e \in Errors : FetchThrows(1, e)
  \/ \E e \in Errors : TestThrows(1, e)
  \/ Close(1)

SpecOne == InitOne /\ [][NextOne]_vars

\* --------------------------------------------------------------- claims

Conns == 1..MaxReq
Answered(r) == req[r].pc = "responded"
\* The connection holds the answer to a request whose fetch returned.
Fetched(r) == Answered(r) /\ IsSome(Response(r).fetched)
BodyOf(r) == Get(Response(r).fetched).content
StatusOf(r) == Get(Response(r).fetched).status

\* C1: when a proxy-mode (native) fetch ends, by its GET returning or by
\* its GET throwing, NODE_TLS_REJECT_UNAUTHORIZED is again the value the
\* call saved when it started (unset if it was unset).
C1_RestoredOnEveryExit ==
  [][\A r \in Conns :
       (req[r].pc = "await" /\ req[r].mode = "native" /\ req'[r].pc = "responded")
         => tlsReject' = req[r].originalReject]_vars

\* C2: once no proxy-mode fetch is in flight, the flag is the value it had
\* before the first of them started.  Stated for the moments at which every
\* connection holds the answer of a proxy-mode fetch whose GET returned, so
\* that the flag was restored by every one of them.
C2_IdleFlagIsBootValue ==
  (\A r \in Conns : Fetched(r) /\ Response(r).mode = "native")
    => tlsReject = bootReject

\* The spec's feed test: prefix of the lower-cased, trimmed body.
IsFeedLike(body) ==
  LET t == trim(toLowerCase(body))
  IN  startsWith(t, XmlDecl) \/ startsWith(t, FeedTag) \/ startsWith(t, RssTag)

\* C3: on /test, isXml is true for every fetched body that starts, after
\* trimming and ignoring case, with <?xml, <feed or <rss, and false for
\* every other body.
C3_IsXmlAfterTrim ==
  \A r \in Conns :
    (Fetched(r) /\ Response(r).route = "/test")
      => Response(r).isXml = Some(IsFeedLike(BodyOf(r)))

\* The first n characters of s (none when n is below 1).
FirstChars(s, n) == SubSeq(s, 1, IF n > Len(s) THEN Len(s) ELSE n)

\* min(length, threshold) for a threshold that is a number.
UpTo(body) ==
  IF Len(body) < MAX_FULL_CONTENT_SIZE.val
    THEN Len(body) ELSE MAX_FULL_CONTENT_SIZE.val

\* What the other route answers to the same url, mode and fetch result.
SameRequest(r, route, fullContent) ==
  [ResponseOf(route, Response(r).url, Response(r).mode, fullContent)
     EXCEPT !.reached = TRUE, !.calls = Response(r).calls,
            !.upstream = Response(r).upstream, !.fetched = Response(r).fetched]
AsFetch(r) == FetchRespond(SameRequest(r, "/fetch", FALSE), Get(Response(r).fetched))
AsTestFull(r) == TestRespond(SameRequest(r, "/test", TRUE), Get(Response(r).fetched))

\* a and b are both present and agree on the first min(length, threshold)
\* characters of the fetched body.
SameUpTo(a, b, body) ==
  /\ IsSome(a) /\ IsSome(b)
  /\ FirstChars(Get(a), UpTo(body)) = FirstChars(Get(b), UpTo(body))

\* C4: for one fetch result, the body /fetch sends and the content field of
\* /test?full=true agree on their first min(length, threshold) characters.
C4_FetchAndTestAgree ==
  \A r \in Conns :
    (Fetched(r) /\ ~MAX_FULL_CONTENT_SIZE.nan)
      => /\ Response(r).route = "/fetch"
              => SameUpTo(Response(r).sent, AsTestFull(r).content, BodyOf(r))
         /\ (Response(r).route = "/test" /\ Response(r).fullContent)
              => SameUpTo(AsFetch(r).sent, Response(r).content, BodyOf(r))

\* C4 as amended: the same, except where /fetch answers 413, where it sends
\* no content at all while /test sends the first threshold characters.
C4_AgreeUnless413 ==
  \A r \in Conns :
    (Fetched(r) /\ ~MAX_FULL_CONTENT_SIZE.nan)
      => /\ Response(r).route = "/fetch"
              => IF Response(r).httpStatus = 413 /\ Response(r).isJson
                   THEN /\ Response(r).sent = None
                        /\ AsTestFull(r).content
                             = Some(FirstChars(BodyOf(r), UpTo(BodyOf(r))))
                   ELSE SameUpTo(Response(r).sent, AsTestFull(r).content,
                                 BodyOf(r))
         /\ (Response(r).route = "/test" /\ Response(r).fullContent)
              => IF AsFetch(r).httpStatus = 413 /\ AsFetch(r).isJson
                   THEN /\ AsFetch(r).sent = None
                        /\ Response(r).content
                             = Some(FirstChars(BodyOf(r), UpTo(BodyOf(r))))
                   ELSE SameUpTo(AsFetch(r).sent, Response(r).content,
                                 BodyOf(r))

\* C4: /fetch served a body longer than the threshold (the upstream status
\* was 400 or more) of which /test?full=true keeps the first threshold
\* characters.
C4_Witness ==
  \E r \in Conns :
    /\ Fetched(r) /\ Response(r).route = "/fetch"
    /\ ~MAX_FULL_CONTENT_SIZE.nan /\ MAX_FULL_CONTENT_SIZE.val > 0
    /\ Len(BodyOf(r)) > MAX_FULL_CONTENT_SIZE.val
    /\ Response(r).sent = Some(BodyOf(r))
    /\ AsTestFull(r).contentTruncated = Some(TRUE)

\* C5: on /fetch, a fetched body longer than the maximum is answered with
\* 413, contentLength and maxAllowed, and the body is not sent, whatever
\* the upstream status.
C5_Oversized413 ==
  \A r \in Conns :
    (Fetched(r) /\ Response(r).route = "/fetch"
       /\ NumGt(Len(BodyOf(r)), MAX_FULL_CONTENT_SIZE))
      => /\ Response(r).httpStatus = 413
         /\ Response(r).contentLength = Some(Len(BodyOf(r)))
         /\ Response(r).maxAllowed = Some(MAX_FULL_CONTENT_SIZE)
         /\ Response(r).sent = None

\* C6: on /test with full content requested, a body longer than the
\* maximum gives its first maximum characters, contentTruncated and the
\* advisory message; a body of at most the maximum is given whole and
\* contentTruncated is absent.  Without full content requested, content is
\* absent.
C6_FullContent ==
  \A r \in Conns :
    (Answered(r) /\ Response(r).route = "/test")
      => /\ (Fetched(r) /\ Response(r).fullContent
               /\ NumGt(Len(BodyOf(r)), MAX_FULL_CONTENT_SIZE))
              => /\ Response(r).content
                      = Some(FirstChars(BodyOf(r), MAX_FULL_CONTENT_SIZE.val))
                 /\ Response(r).contentTruncated = Some(TRUE)
                 /\ IsSome(Response(r).message)
         /\ (Fetched(r) /\ Response(r).fullContent
               /\ NumLe(Len(BodyOf(r)), MAX_FULL_CONTENT_SIZE))
              => /\ Response(r).content = Some(BodyOf(r))
                 /\ Response(r).contentTruncated = None
         /\ ~Response(r).fullContent => Response(r).content = None

\* C6: a body cut to a maximum it exceeds.
C6_Witness ==
  \E r \in Conns :
    /\ Fetched(r) /\ Response(r).route = "/test" /\ Response(r).fullContent
    /\ NumGt(Len(BodyOf(r)), MAX_FULL_CONTENT_SIZE)
    /\ MAX_FULL_CONTENT_SIZE.val > 0
    /\ Response(r).contentTruncated = Some(TRUE)
    /\ Len(Get(Response(r).content)) = MAX_FULL_CONTENT_SIZE.val

\* The value of the first field present among body, data, content, else the
\* whole object stringified.
FirstPresent(d) ==
  IF IsSome(d.body) THEN Get(d.body)
  ELSE IF IsSome(d.data) THEN Get(d.data)
  ELSE IF IsSome(d.content) THEN Get(d.content)
  ELSE JSONstringify(d)

\* C7: in api mode, the text of a JSON envelope is the value of the first
\* field present among body, data, content, empty or not; with none of them
\* present it is the whole object stringified.
C7_FirstPresentField ==
  \A r \in Conns :
    (Fetched(r) /\ Response(r).mode = "api"
       /\ Get(Response(r).upstream).data.kind = "object")
      => BodyOf(r) = FirstPresent(Get(Response(r).upstream).data)

\* The request passed the handlers' validation of url and mode.
PassesValidation(x) ==
  x.url # "" /\ UrlParses(x.url) /\ x.mode \in {"api", "native"}

\* C9: a request that passes validation makes exactly one outbound call,
\* whether the call returns or throws; a rejected request makes none.
C9_OneOutboundCall ==
  \A r \in Conns :
    /\ req[r].pc = "await" => req[r].calls = 1
    /\ Answered(r)
         => Response(r).calls = IF PassesValidation(Response(r)) THEN 1 ELSE 0

\* C9: an answer to a request whose only outbound call threw.
C9_Witness ==
  \E r \in Conns :
    /\ Answered(r) /\ IsSome(Response(r).thrown)
    /\ PassesValidation(Response(r)) /\ Response(r).calls = 1

\* C10: a request with a url that parses and a mode that is neither 'api'
\* nor 'native' is answered 400 with error 'Invalid mode' and allowed
\* ['api', 'native'], on /test and on /fetch.
C10_InvalidMode ==
  \A r \in Conns :
    (Answered(r) /\ Response(r).url # "" /\ UrlParses(Response(r).url)
       /\ Response(r).mode \notin {"api", "native"})
      => /\ Response(r).httpStatus = 400
         /\ Response(r).error = Some("Invalid mode")
         /\ Response(r).allowed = Some(<<"api", "native">>)

\* C10: mode 'bogus' rejected on /test, the url having been defaulted.
C10_Witness ==
  \E r \in Conns :
    /\ Answered(r) /\ Response(r).route = "/test"
    /\ Response(r).mode = "bogus" /\ Response(r).url = DefaultUrl
    /\ Response(r).httpStatus = 400

\* The answer of /test to the fetched body <?xml version="1.0"?><rss></rss>
\* with upstream status 200.
FeedScenario(r) ==
  /\ Fetched(r) /\ Response(r).route = "/test"
  /\ BodyOf(r) = FeedDocument /\ StatusOf(r) = 200

\* C11: for that body and status, /test reports success, isXml, no
\* Cloudflare challenge, and contentLength 33.
C11_FeedScenario33 ==
  \A r \in Conns :
    FeedScenario(r)
      => /\ Response(r).success = Some(TRUE)
         /\ Response(r).isXml = Some(TRUE)
         /\ Response(r).hasCloudflareChallenge = Some(FALSE)
         /\ Response(r).contentLength = Some(33)

\* C11 as amended: the same with contentLength 32, the number of characters
\* of the body.
C11_FeedScenario32 ==
  \A r \in Conns :
    FeedScenario(r)
      => /\ Response(r).success = Some(TRUE)
         /\ Response(r).isXml = Some(TRUE)
         /\ Response(r).hasCloudflareChallenge = Some(FALSE)
         /\ Response(r).contentLength = Some(32)
         /\ Response(r).httpStatus = 200

\* C11: the scenario has been answered.
C11_Witness == \E r \in Conns : FeedScenario(r)

\* body contains lit at some position, letter case ignored.
ContainsAnyCase(body, lit) ==
  \E i \in 1..Len(body) :
    /\ i + Len(lit) - 1 <= Len(body)
    /\ \A k \in 1..Len(lit) : toLowerCaseChar(body[i + k - 1]) = lit[k]

IsBlocked(body) ==
  \/ ContainsAnyCase(body, Cloudflare)
  \/ ContainsAnyCase(body, JustAMoment)
  \/ ContainsAnyCase(body, CfVerification)

BeginsWithAny(body, lits) ==
  \E lit \in lits : startsWith(trim(toLowerCase(body)), lit)

\* The Content-Type of the priority list for a body.
SniffedType(body) ==
  CASE BeginsWithAny(body, {XmlDecl, FeedTag, RssTag})
         -> "application/xml; charset=utf-8"
    [] /\ ~BeginsWithAny(body, {XmlDecl, FeedTag, RssTag})
       /\ BeginsWithAny(body, {Doctype, HtmlTag})
         -> "text/html; charset=utf-8"
    [] /\ ~BeginsWithAny(body, {XmlDecl, FeedTag, RssTag, Doctype, HtmlTag})
       /\ BeginsWithAny(body, {<<"{">>, <<"[">>})
         -> "application/json; charset=utf-8"
    [] OTHER -> "text/plain; charset=utf-8"

\* /fetch sent the fetched body to the caller.
Served(r) ==
  /\ Fetched(r) /\ Response(r).route = "/fetch"
  /\ IsSome(Response(r).sent)

\* C13: every body /fetch serves carries the Content-Type that the first
\* matching prefix test on its lower-cased, trimmed text gives (XML, then
\* HTML, then JSON, else plain text).
C13_SniffedTypeOnServedBody ==
  \A r \in Conns :
    Served(r) => Response(r).contentType = Some(SniffedType(Get(Response(r).sent)))

\* The outbound call of r threw, and r has its answer.
Failed(r) == Answered(r) /\ IsSome(Response(r).thrown)
ErrorOf(r) == Get(Response(r).thrown)

\* The text of the response attached to an error.
AttachedText(err) ==
  LET data == Get(err.response).data
  IN  IF data.kind = "string" THEN data.text ELSE JSONstringify(data)

Tested(r) == Fetched(r) /\ Response(r).route = "/test"

\* C15: the success field of /test is true exactly when the upstream status
\* is at least 200 and below 300, and false when the fetch threw.
C15_SuccessIff2xx ==
  \A r \in Conns :
    /\ Tested(r)
         => Response(r).success = Some(200 <= StatusOf(r) /\ StatusOf(r) < 300)
    /\ (Failed(r) /\ Response(r).route = "/test")
         => Response(r).success = Some(FALSE)

\* C15: status 300, the first status above the range, reported as no success.
C15_Witness ==
  \E r \in Conns :
    Tested(r) /\ StatusOf(r) = 300 /\ Response(r).success = Some(FALSE)

Min(a, b) == IF a < b THEN a ELSE b

\* C16: contentPreview is the first min(500, length) characters of the
\* fetched body: a prefix of it whose length is min(500, contentLength).
C16_PreviewIsPrefix ==
  \A r \in Conns :
    Tested(r)
      => LET preview == Get(Response(r).contentPreview)
             n == Min(PreviewLength, Get(Response(r).contentLength))
         IN  /\ Get(Response(r).contentLength) = Len(BodyOf(r))
             /\ Len(preview) = n
             /\ \A i \in 1..n : preview[i] = BodyOf(r)[i]

\* C16: a body longer than 500 characters has been previewed.
C16_Witness ==
  \E r \in Conns :
    /\ Tested(r) /\ Len(BodyOf(r)) > PreviewLength
    /\ Len(Get(Response(r).contentPreview)) = PreviewLength

\* A /test request of connection r has begun and has not responded.
TestInFlight(r) == req[r].pc = "await" /\ req[r].route = "/test"

\* C17: whatever the interleaving of /test requests, once all of them have
\* responded console.log and console.error are the functions that were in
\* place before the first of them began.
C17_ConsoleRestored ==
  (\A r \in Conns : ~TestInFlight(r))
    => console = [log |-> Builtin, error |-> Builtin]

\* The upstream status /test knows of: the one fetchContent returned, or the
\* one of the response attached to the error it threw.
KnownStatus(r) ==
  IF IsSome(Response(r).fetched) THEN Some(StatusOf(r))
  ELSE IF IsSome(Response(r).thrown) /\ IsSome(ErrorOf(r).response)
    THEN Some(Get(ErrorOf(r).response).status)
  ELSE None

\* /test has answered a request that reached the fetch step.
TestAnswered(r) ==
  Answered(r) /\ Response(r).route = "/test" /\ Response(r).reached

\* C18: a /test response that reached the fetch step has HTTP status 200
\* exactly when its success field is true; otherwise its status is the
\* upstream status when one is known and 500 when none is; in all these
\* cases it is the JSON envelope with mode, url and logs.
C18_StatusCode ==
  \A r \in Conns :
    TestAnswered(r)
      => LET res == Response(r)
         IN  /\ (res.httpStatus = 200) <=> (res.success = Some(TRUE))
             /\ res.success # Some(TRUE)
                  => res.httpStatus = IF IsSome(KnownStatus(r))
                                        THEN Get(KnownStatus(r)) ELSE 500
             /\ res.isJson
             /\ res.mode \in {"api", "native"} /\ res.url # ""
             /\ res.logs = Some(<<>>)

\* C18: a fetch that threw with no upstream response, answered 500; the
\* other cases are the upstream statuses 299 (answered 200) and 404.
C18_Witness ==
  \E r \in Conns :
    /\ TestAnswered(r) /\ IsSome(Response(r).thrown)
    /\ KnownStatus(r) = None
    /\ Response(r).httpStatus = 500
    /\ Response(r).logs = Some(<<>>)

====
